---------------------------- MODULE Spec2Model ----------------------------
(***************************************************************************)
(* Router-state synchronisation engine of the AsusWrt-Merlin integration:  *)
(* the table parsers and the DHCP/ARP merge (ssh_client.py), the cycle of  *)
(* the data update coordinator with its presence state and WAN metrics     *)
(* (coordinator.py), the presence query of a tracker entity                *)
(* (device_tracker.py) and the period accumulators (sensor.py).            *)
(*                                                                         *)
(* Time is the reading of datetime.now(), in seconds from the instant      *)
(* 2023-12-30 23:59:30 local time.  An optional value (None or a value) is *)
(* the empty or the one-element sequence.  A dict is a function whose      *)
(* DOMAIN is the set of its keys.  A text is the sequence of its lines and *)
(* a line the sequence of its whitespace-separated fields (str.split()).   *)
(***************************************************************************)
EXTENDS Integers, Sequences, FiniteSets, TLC

None == <<>>
Some(v) == <<v>>
IsNone(o) == o = <<>>
Val(o) == o[1]

Max(a, b) == IF a >= b THEN a ELSE b

(***************************************************************************)
(* Bounds of the model.                                                    *)
(***************************************************************************)
\* longest lease table and longest ARP table given to the merge on its own
MaxLines == 2
\* number of cycles (first refreshes included) of one behaviour
MaxCycles == 3
\* number of cycles of one behaviour of the WAN specification
MaxWanCycles == 4
\* number of commands one behaviour of the client specification executes
MaxCalls == 2

(***************************************************************************)
(* Strings of the model: hardware addresses as the router prints them      *)
(* (either case), and what str.upper and the hostname synthesis make of    *)
(* them.                                                                   *)
(***************************************************************************)
RawMacs == {"aa:01", "AA:01", "bb:02", "BB:02"}

\* str.upper() on a hardware address
upper(s) ==
    CASE s = "aa:01" -> "AA:01"
      [] s = "bb:02" -> "BB:02"
      [] OTHER -> s

\* the hardware addresses after upper(): the keys of every map of the coordinator
Macs == {upper(m) : m \in RawMacs}

\* f"device_{mac.replace(':', '_')}"
device_label(s) ==
    CASE s = "aa:01" -> "device_aa_01"
      [] s = "AA:01" -> "device_AA_01"
      [] s = "bb:02" -> "device_bb_02"
      [] s = "BB:02" -> "device_BB_02"
      [] OTHER -> "device_"

\* the IP address the model's router leases to a hardware address
ip_of(s) == IF upper(s) = "AA:01" THEN "10.0.0.1" ELSE "10.0.0.2"

(***************************************************************************)
(* Table parsers (ssh_client.py).                                          *)
(***************************************************************************)
\* variant of the hostname synthesis that keeps the field as the lease
\* table holds it
lease_hostname_kept(parts) == parts[4]

\* hostname of a lease line with at least 4 fields
lease_hostname(parts) ==
    IF parts[4] = "" \/ parts[4] = "*"
    THEN device_label(parts[2])
    ELSE parts[4]

\* the records _parse_dhcp_leases appends for one line: a blank line and a
\* line with fewer than 4 fields give none
parse_dhcp_line(parts) ==
    IF Len(parts) >= 4
    THEN << [mac |-> parts[2], ip |-> parts[3], hostname |-> lease_hostname(parts)] >>
    ELSE << >>

\* variant of _parse_dhcp_leases that gives up at the first line with fewer
\* than 4 fields
RECURSIVE parse_dhcp_until_short(_)
parse_dhcp_until_short(output) ==
    IF output = << >> THEN << >>
    ELSE IF Len(Head(output)) \in 1..3 THEN << >>
    ELSE parse_dhcp_line(Head(output)) \o parse_dhcp_until_short(Tail(output))

RECURSIVE parse_dhcp_leases(_)
parse_dhcp_leases(output) ==
    IF output = << >> THEN << >>
    ELSE parse_dhcp_line(Head(output)) \o parse_dhcp_leases(Tail(output))

\* line.startswith("IP address")
is_arp_header(parts) ==
    Len(parts) >= 2 /\ parts[1] = "IP" /\ parts[2] = "address"

\* the flags value of a reachable neighbour
ARP_REACHABLE == "0x2"

\* the condition under which _parse_arp_table keeps a line
arp_row_kept(parts) ==
    /\ Len(parts) > 0
    /\ ~is_arp_header(parts)
    /\ Len(parts) >= 6
    /\ parts[3] = ARP_REACHABLE

parse_arp_line(parts) ==
    IF arp_row_kept(parts)
    THEN << [ip |-> parts[1], mac |-> parts[4], hostname |-> device_label(parts[4])] >>
    ELSE << >>

RECURSIVE parse_arp_table(_)
parse_arp_table(output) ==
    IF output = << >> THEN << >>
    ELSE parse_arp_line(Head(output)) \o parse_arp_table(Tail(output))

(***************************************************************************)
(* Device merge (ssh_client.py, get_connected_devices).                    *)
(***************************************************************************)
\* variant of in_arp that compares the addresses as the tables write them
in_arp_as_written(mac, arp_devices) ==
    \E i \in 1..Len(arp_devices) : arp_devices[i].mac = mac

\* any(arp_device[ATTR_MAC].upper() == mac for arp_device in arp_devices)
in_arp(mac, arp_devices) ==
    \E i \in 1..Len(arp_devices) : upper(arp_devices[i].mac) = mac

\* the device built from one lease record at time t; the key "last_seen" is
\* not set by the merge (None stands for the missing key)
merge_device(dhcp_device, arp_devices, t) ==
    LET mac == upper(dhcp_device.mac)
        is_connected == in_arp(mac, arp_devices)
    IN  [mac |-> mac,
         hostname |-> dhcp_device.hostname,
         ip |-> dhcp_device.ip,
         is_connected |-> is_connected,
         last_activity |-> IF is_connected THEN Some(t) ELSE None,
         last_seen |-> None]

\* variant of the merge that also reports the neighbours of the ARP table
merge_devices_with_arp(dhcp_devices, arp_devices, t) ==
    [i \in 1..Len(dhcp_devices) |-> merge_device(dhcp_devices[i], arp_devices, t)]
    \o [i \in 1..Len(arp_devices) |->
           [mac |-> upper(arp_devices[i].mac),
            hostname |-> arp_devices[i].hostname,
            ip |-> arp_devices[i].ip,
            is_connected |-> TRUE,
            last_activity |-> Some(t),
            last_seen |-> None]]

merge_devices(dhcp_devices, arp_devices, t) ==
    [i \in 1..Len(dhcp_devices) |-> merge_device(dhcp_devices[i], arp_devices, t)]

\* get_connected_devices on an open session whose two commands return the
\* texts dhcp and arp
get_connected_devices(dhcp, arp, t) ==
    merge_devices(parse_dhcp_leases(dhcp), parse_arp_table(arp), t)

(***************************************************************************)
(* The clock and the calendar.  datetime.now() is the local wall clock: it *)
(* is read at a later value from one cycle to the next, except when the    *)
(* wall clock is set back (an hour, at the end of daylight saving time).   *)
(***************************************************************************)
DAY == 24 * 3600
\* seconds from midnight to the instant 0 of the model (23:59:30)
EpochOffset == DAY - 30
\* the last instant of the calendar below (the end of 2024)
MaxNow == 367 * DAY - EpochOffset - 1

\* day 0 is 2023-12-30, day 1 is 2023-12-31, day 2 is 2024-01-01
day_index(t) == (t + EpochOffset) \div DAY

\* the days of 2024 before each month (a leap year), then the whole year
MonthStart == << 0, 31, 60, 91, 121, 152, 182, 213, 244, 274, 305, 335, 366 >>

month_of(doy) == CHOOSE m \in 1..12 : MonthStart[m] <= doy /\ doy < MonthStart[m + 1]

\* the date datetime.now() holds at time t, as <<year, month, day>>
date_of(t) ==
    LET d == day_index(t)
    IN  IF d < 2 THEN << 2023, 12, 30 + d >>
        ELSE LET doy == d - 2
                 m == month_of(doy)
             IN  << 2024, m, doy - MonthStart[m] + 1 >>

Periods == {"daily", "monthly", "yearly"}
Directions == {"download", "upload"}

\* variant of _current_period_marker whose daily marker is the day of the
\* month alone ("%d")
current_period_marker_day_only(period, t) ==
    LET ymd == date_of(t)
    IN  CASE period = "daily" -> << ymd[3] >>
          [] period = "monthly" -> << ymd[1], ymd[2] >>
          [] OTHER -> << ymd[1] >>

\* _current_period_marker: strftime of "%Y-%m-%d", "%Y-%m" or "%Y", as the
\* sequence of the numbers printed
current_period_marker(period, t) ==
    LET ymd == date_of(t)
    IN  CASE period = "daily" -> ymd
          [] period = "monthly" -> << ymd[1], ymd[2] >>
          [] OTHER -> << ymd[1] >>

(***************************************************************************)
(* Numbers of the sensors.  A byte count b stands for the float            *)
(* b / 1024**3 (GB).  An accumulator value is milli / 1000 + bytes /       *)
(* 1024**3 GB: the part restored from a state rounded to 3 decimals and    *)
(* the bytes added since.                                                  *)
(***************************************************************************)
\* 1024**3 / 8 and 1000 / 8: x * 1000 / 1024**3 = x * 125 / 2**27
GB8 == 2 ^ 27
K8 == 1000 \div 8

Gb(milli, bytes) == [milli |-> milli, bytes |-> bytes]
GbZero == Gb(0, 0)
GbAdd(v, delta_bytes) == Gb(v.milli, v.bytes + delta_bytes)
\* v <= w as numbers of GB
GbLeq(v, w) == (v.milli - w.milli) * GB8 <= (w.bytes - v.bytes) * K8

\* round(x, 3) of x = bytes / 1024**3, in thousandths: round half to even
round_milli(bytes) ==
    LET n == bytes * K8
        q == n \div GB8
        r == n % GB8
    IN  IF 2 * r > GB8 \/ (2 * r = GB8 /\ q % 2 = 1) THEN q + 1 ELSE q

\* native_value of an accumulator: round(self._value_gb, 3), in thousandths.
\* No tie of the sum falls on a different side than the tie of the byte
\* part for the byte counts of the model (below 2**26).
native_value(v) == v.milli + round_milli(v.bytes)

(***************************************************************************)
(* Dicts.                                                                  *)
(***************************************************************************)
EmptyDict == [k \in {} |-> None]
Put(f, k, v) == [x \in (DOMAIN f) \cup {k} |-> IF x = k THEN v ELSE f[x]]
Pop(f, ks) == [x \in (DOMAIN f) \ ks |-> f[x]]

\* datetime.isoformat() and datetime.fromisoformat(): the text of a
\* timestamp is not a timestamp, and parsing it gives the timestamp back
isoformat(t) == [iso |-> t]
fromisoformat(s) == s.iso

(***************************************************************************)
(* The coordinator (coordinator.py).  Its fields are the fields of the     *)
(* record c; the operators below give the record after each step of        *)
(* _async_update_data.                                                     *)
(***************************************************************************)
\* the fields set by __init__; data is DataUpdateCoordinator.data, the list
\* the last cycle returned (empty before the first one)
FreshCoordinator ==
    [last_update_time |-> None,
     known_devices |-> {},
     new_devices_callback |-> FALSE,
     mac_last_seen |-> EmptyDict,
     mac_hostname |-> EmptyDict,
     last_wan_rx_bytes |-> None,
     last_wan_tx_bytes |-> None,
     last_wan_sample_time |-> None,
     wan_total_download_gb |-> None,
     wan_total_upload_gb |-> None,
     wan_download_mbps |-> None,
     wan_upload_mbps |-> None,
     wan_last_rx_delta_bytes |-> None,
     wan_last_tx_delta_bytes |-> None,
     last_clients_ping |-> None,
     data |-> << >>]

\* timedelta(days=30), timedelta(minutes=5), DEFAULT_SECONDS_UNTIL_AWAY
PRUNE_DAYS == 30
PING_MINUTES == 5
DEFAULT_SECONDS_UNTIL_AWAY == 180
\* consider_home of the coordinator class kept in device_tracker.py
CONSIDER_HOME == 180

prune_threshold == PRUNE_DAYS * DAY

\* the hardware addresses of a device list
macs_of(devices) == {devices[i].mac : i \in 1..Len(devices)}

\* mac_to_device[mac]: the dict comprehension keeps the last device of a key
mac_to_device(devices, mac) ==
    devices[CHOOSE i \in 1..Len(devices) :
               /\ devices[i].mac = mac
               /\ \A j \in (i + 1)..Len(devices) : devices[j].mac # mac]

\* connected_new_devices of lines 116-124
connected_new_devices(c, devices) ==
    {mac \in macs_of(devices) \ c.known_devices :
        mac_to_device(devices, mac).is_connected}

\* variant of track_devices that stamps every listed device, connected or not
track_devices_stamp_all(c, devices, t) ==
    [c EXCEPT !.mac_last_seen =
        [mac \in (DOMAIN @) \cup (macs_of(devices) \ {""}) |->
            IF mac \in macs_of(devices) THEN t ELSE @[mac]]]

\* lines 137-165: the loop that records hostnames and last-seen times
RECURSIVE track_devices(_, _, _)
track_devices(c, devices, t) ==
    IF devices = << >> THEN c
    ELSE LET d == Head(devices)
             c1 == IF d.hostname # ""
                   THEN [c EXCEPT !.mac_hostname = Put(@, d.mac, d.hostname)]
                   ELSE c
             c2 == IF d.is_connected
                   THEN [c1 EXCEPT !.mac_last_seen = Put(@, d.mac, t)]
                   ELSE IF ~IsNone(d.last_seen)
                        THEN [c1 EXCEPT !.mac_last_seen = Put(@, d.mac, Val(d.last_seen))]
                        ELSE c1
         IN  IF d.mac = "" THEN track_devices(c, Tail(devices), t)
             ELSE track_devices(c2, Tail(devices), t)

(***************************************************************************)
(* WAN metrics (coordinator.py, _update_wan_metrics).  counters is the     *)
(* dict of the sample: each of its two keys holds a byte count or is       *)
(* missing (None).  A rate is the pair <<bits, seconds>> of the quotient   *)
(* (delta * 8) / 1_000_000.0 / elapsed.                                    *)
(***************************************************************************)
has_previous_sample(c) ==
    /\ ~IsNone(c.last_wan_rx_bytes)
    /\ ~IsNone(c.last_wan_tx_bytes)
    /\ ~IsNone(c.last_wan_sample_time)

\* lines 354-367: the delta of one counter, None when it is not computed
wan_delta(c, previous, current, t) ==
    IF has_previous_sample(c) /\ t - Val(c.last_wan_sample_time) > 0
    THEN Some(Max(0, current - Val(previous)))
    ELSE None

\* lines 363-364: the rate is assigned only where the delta is computed
wan_rate(c, old_rate, delta, t) ==
    IF IsNone(delta) THEN old_rate
    ELSE Some(<< Val(delta) * 8, t - Val(c.last_wan_sample_time) >>)

\* variant of exposed_delta that leaves a delta that was not computed unset
exposed_delta_unset(delta) == delta

\* lines 374-375
exposed_delta(delta) == IF IsNone(delta) THEN Some(0) ELSE delta

\* variant of _update_wan_metrics that stores the counter it finds before it
\* looks for the missing one
update_wan_metrics_eager(c, counters, t) ==
    IF IsNone(counters.rx_bytes) THEN c
    ELSE [c EXCEPT !.last_wan_rx_bytes = counters.rx_bytes,
                   !.wan_total_download_gb = counters.rx_bytes,
                   !.last_wan_tx_bytes =
                       IF IsNone(counters.tx_bytes) THEN @ ELSE counters.tx_bytes,
                   !.last_wan_sample_time =
                       IF IsNone(counters.tx_bytes) THEN @ ELSE Some(t)]

\* _update_wan_metrics
update_wan_metrics(c, counters, t) ==
    IF IsNone(counters.rx_bytes) \/ IsNone(counters.tx_bytes) THEN c
    ELSE LET rx_bytes == Val(counters.rx_bytes)
             tx_bytes == Val(counters.tx_bytes)
             rx_delta == wan_delta(c, c.last_wan_rx_bytes, rx_bytes, t)
             tx_delta == wan_delta(c, c.last_wan_tx_bytes, tx_bytes, t)
         IN  [c EXCEPT !.wan_total_download_gb = Some(rx_bytes),
                       !.wan_total_upload_gb = Some(tx_bytes),
                       !.wan_download_mbps = wan_rate(c, @, rx_delta, t),
                       !.wan_upload_mbps = wan_rate(c, @, tx_delta, t),
                       !.last_wan_rx_bytes = Some(rx_bytes),
                       !.last_wan_tx_bytes = Some(tx_bytes),
                       !.last_wan_sample_time = Some(t),
                       !.wan_last_rx_delta_bytes = exposed_delta(rx_delta),
                       !.wan_last_tx_delta_bytes = exposed_delta(tx_delta)]

(***************************************************************************)
(* Pruning, persistence and the last-seen enrichment (coordinator.py).     *)
(* registry is the set of unique ids (hardware addresses) of the tracker   *)
(* entities the entity registry holds for this config entry.               *)
(***************************************************************************)
\* line 322: last_seen is None or last_seen < cutoff
is_stale(c, mac, t) ==
    \/ mac \notin DOMAIN c.mac_last_seen
    \/ c.mac_last_seen[mac] < t - prune_threshold

stale_entities(c, registry, t) == {mac \in registry : is_stale(c, mac, t)}

\* variant of the pruning loop that ends at the first removal that raises
prune_until_failure(c, registry, bad, t) ==
    IF stale_entities(c, registry, t) \cap bad # {}
    THEN c
    ELSE [c EXCEPT !.known_devices = @ \ stale_entities(c, registry, t),
                   !.mac_hostname = Pop(@, stale_entities(c, registry, t))]

\* lines 316-334: the stale entities the loop removes; bad are the entities
\* whose registry.async_remove raises, which the loop passes over
removed_entities(c, registry, bad, t) == stale_entities(c, registry, t) \ bad

\* lines 329-331 for every stale entity whose removal does not raise
prune_stale_entities(c, registry, bad, t) ==
    [c EXCEPT !.known_devices = @ \ removed_entities(c, registry, bad, t),
              !.mac_hostname = Pop(@, removed_entities(c, registry, bad, t))]

\* the dict _async_save_persisted_last_seen hands to the store
serializable(c) ==
    [mac \in DOMAIN c.mac_last_seen |->
        [last_seen |-> isoformat(c.mac_last_seen[mac]),
         hostname |-> IF mac \in DOMAIN c.mac_hostname /\ c.mac_hostname[mac] # ""
                      THEN Some(c.mac_hostname[mac]) ELSE None]]

\* async_load_persisted_last_seen: stored is None (nothing stored, or the
\* load raised) or the stored dict
load_persisted_last_seen(c, stored) ==
    IF IsNone(stored) THEN c
    ELSE LET data == Val(stored)
             hosts == {mac \in DOMAIN data : ~IsNone(data[mac].hostname)}
         IN  [c EXCEPT
                !.mac_last_seen =
                    [mac \in (DOMAIN @) \cup (DOMAIN data) |->
                        IF mac \in DOMAIN data
                        THEN fromisoformat(data[mac].last_seen) ELSE @[mac]],
                !.mac_hostname =
                    [mac \in (DOMAIN @) \cup hosts |->
                        IF mac \in hosts THEN Val(data[mac].hostname) ELSE @[mac]]]

\* variant of the enrichment that returns the device as acquired
enrich_device_skip(c, d) == d

\* lines 177-198: a device that is not connected and has no last_seen gets
\* the stored one
enrich_device(c, d) ==
    IF d.mac # "" /\ ~d.is_connected /\ IsNone(d.last_seen)
       /\ d.mac \in DOMAIN c.mac_last_seen
    THEN [d EXCEPT !.last_seen = Some(c.mac_last_seen[d.mac])]
    ELSE d

enrich_devices(c, devices) ==
    [i \in 1..Len(devices) |-> enrich_device(c, devices[i])]

(***************************************************************************)
(* Acquisition (coordinator.py, _get_data_from_router).  What the router   *)
(* answers in one session is the record a: connected (connect() did not    *)
(* raise), dhcp and arp (the two tables; dhcp is None when a command       *)
(* raised inside get_connected_devices), wan (what get_wan_counters        *)
(* returned, None or the counters) and ping_ok (ping_ips did not raise).   *)
(***************************************************************************)
acquired_devices(a, t) ==
    IF ~a.connected \/ IsNone(a.dhcp) THEN << >>
    ELSE get_connected_devices(Val(a.dhcp), a.arp, t)

acquired_wan(a) == IF a.connected THEN a.wan ELSE None

\* lines 217-219
should_ping(c, t) ==
    \/ IsNone(c.last_clients_ping)
    \/ t - Val(c.last_clients_ping) >= PING_MINUTES * 60

\* lines 243-250: the addresses of the connected devices whose entity is
\* enabled in the registry
ping_targets(devices, enabled) ==
    {devices[i].ip : i \in {j \in 1..Len(devices) :
        /\ devices[j].is_connected
        /\ devices[j].ip # ""
        /\ devices[j].mac \in enabled}}

\* lines 225-257: the addresses ping_ips is called with in this session,
\* none when it is not called
ping_invoked(c, a, devices, enabled, t) ==
    IF a.connected /\ should_ping(c, t) /\ devices # << >>
    THEN ping_targets(devices, enabled)
    ELSE {}

\* lines 225-260: the time of the last probe after this session
pinged(c, a, devices, enabled, t) ==
    IF /\ a.connected
       /\ should_ping(c, t)
       /\ devices # << >>
       /\ ping_targets(devices, enabled) # {}
       /\ a.ping_ok
    THEN Some(t)
    ELSE c.last_clients_ping

(***************************************************************************)
(* One cycle (coordinator.py, _async_update_data), from the acquired       *)
(* devices and WAN sample to the returned list.                            *)
(***************************************************************************)
\* "if wan_stats:" a dict is true when it has a key
wan_truthy(wan_stats) ==
    /\ ~IsNone(wan_stats)
    /\ ~(IsNone(Val(wan_stats).rx_bytes) /\ IsNone(Val(wan_stats).tx_bytes))

\* lines 110-133: the addresses the new-devices callback is called with
surfaced_devices(c, devices) ==
    IF devices # << >> /\ c.new_devices_callback
    THEN connected_new_devices(c, devices)
    ELSE {}

\* lines 104-168: the coordinator after the presence and WAN steps
updated(c, devices, wan_stats, t) ==
    LET c1 == [c EXCEPT !.last_update_time = Some(t)]
        c2 == IF devices # << >>
              THEN [c1 EXCEPT !.known_devices = @ \cup connected_new_devices(c1, devices)]
              ELSE c1
        c3 == track_devices(c2, devices, t)
    IN  IF wan_truthy(wan_stats) THEN update_wan_metrics(c3, Val(wan_stats), t) ELSE c3

\* lines 97-199: the coordinator when the cycle returns; reg is the
\* registry the pruning step examines
async_update_data(c, reg, bad, devices, wan_stats, t) ==
    LET c4 == updated(c, devices, wan_stats, t)
        c5 == prune_stale_entities(c4, reg, bad, t)
    IN  [c5 EXCEPT !.data = enrich_devices(c5, devices)]

(***************************************************************************)
(* The presence query of a tracker entity (device_tracker.py).             *)
(***************************************************************************)
first_device(devices, mac) ==
    devices[CHOOSE i \in 1..Len(devices) :
               /\ devices[i].mac = mac
               /\ \A j \in 1..(i - 1) : devices[j].mac # mac]

\* the property is_connected of the entity of mac, read at time t
is_connected(c, mac, t) ==
    IF c.data = << >> THEN FALSE
    ELSE IF mac \notin macs_of(c.data) THEN FALSE
    ELSE LET device == first_device(c.data, mac)
         IN  IF device.is_connected THEN TRUE
             ELSE IF ~IsNone(device.last_activity)
                  THEN t - Val(device.last_activity) < CONSIDER_HOME
                  ELSE FALSE

(***************************************************************************)
(* The WAN cache of the total and speed sensors (sensor.py, _WAN_CACHE and *)
(* _ensure_wan_stats_updated).                                             *)
(***************************************************************************)
\* lines 21-30
NewCache ==
    [coordinator_ts |-> None, last_rx_bytes |-> None, last_tx_bytes |-> None,
     last_sample_ts |-> None, total_download_gb |-> None,
     total_upload_gb |-> None, download_mbps |-> None, upload_mbps |-> None]

\* _ensure_wan_stats_updated called for coordinator c at time t
ensure_wan_stats_updated(cache, c, t) ==
    IF cache.coordinator_ts = c.last_update_time THEN cache
    ELSE [coordinator_ts |-> c.last_update_time,
          last_rx_bytes |-> None,
          last_tx_bytes |-> None,
          last_sample_ts |-> Some(t),
          total_download_gb |-> c.wan_total_download_gb,
          total_upload_gb |-> c.wan_total_upload_gb,
          download_mbps |-> c.wan_download_mbps,
          upload_mbps |-> c.wan_upload_mbps]

\* round(value, 3) of a total, in thousandths of a GB; None stays None
round_total(value) == IF IsNone(value) THEN None ELSE Some(round_milli(Val(value)))

\* native_value of the four total and speed sensors of coordinator c, read
\* at time t: the cache after the call, and what the sensors return.  A
\* speed is left as the quotient it rounds.
wan_sensors_read(cache, c, t) ==
    LET after == ensure_wan_stats_updated(cache, c, t)
    IN  [cache |-> after,
         total_download |-> round_total(after.total_download_gb),
         total_upload |-> round_total(after.total_upload_gb),
         download_speed |-> after.download_mbps,
         upload_speed |-> after.upload_mbps]

(***************************************************************************)
(* Period accumulators (sensor.py, _AccumulatingWanCounterSensor).  A      *)
(* sensor is the record of _value_gb and _last_period_marker; its id is    *)
(* <<period, direction>>.  A state of the host is the record of the state  *)
(* (a number in thousandths, None for "unknown" or "unavailable") and of   *)
(* the attribute period_marker (None when missing).                        *)
(***************************************************************************)
SensorIds == Periods \X Directions

NewSensor == [value_gb |-> None, last_period_marker |-> None]

\* variant of async_added_to_hass that ignores the last state
async_added_to_hass_fresh(last_state) ==
    [value_gb |-> Some(GbZero), last_period_marker |-> None]

\* async_added_to_hass
async_added_to_hass(last_state) ==
    [value_gb |->
        IF ~IsNone(last_state) /\ ~IsNone(Val(last_state).state)
        THEN Some(Gb(Val(Val(last_state).state), 0))
        ELSE Some(GbZero),
     last_period_marker |->
        IF ~IsNone(last_state) THEN Val(last_state).period_marker ELSE None]

\* variant of _maybe_reset_for_new_period that does not store the new marker
maybe_reset_keep_marker(s, id, t) ==
    IF s.last_period_marker # Some(current_period_marker(id[1], t))
    THEN [s EXCEPT !.value_gb = Some(GbZero)]
    ELSE s

\* _maybe_reset_for_new_period
maybe_reset_for_new_period(s, id, t) ==
    LET marker == current_period_marker(id[1], t)
    IN  IF s.last_period_marker # Some(marker)
        THEN [value_gb |-> Some(GbZero), last_period_marker |-> Some(marker)]
        ELSE s

\* "self.coordinator.wan_last_rx_delta_bytes or 0" for the sensor's direction
delta_bytes(c, id) ==
    LET d == IF id[2] = "download" THEN c.wan_last_rx_delta_bytes
             ELSE c.wan_last_tx_delta_bytes
    IN  IF IsNone(d) THEN 0 ELSE Val(d)

\* variant of _handle_coordinator_update that adds nothing in the update
\* that resets
handle_update_skip_on_reset(s, id, c, t) ==
    IF s.last_period_marker # Some(current_period_marker(id[1], t))
    THEN [value_gb |-> Some(GbZero),
          last_period_marker |-> Some(current_period_marker(id[1], t))]
    ELSE [s EXCEPT !.value_gb =
            Some(GbAdd(IF IsNone(@) THEN GbZero ELSE Val(@), delta_bytes(c, id)))]

\* _handle_coordinator_update, up to the write of the state
handle_coordinator_update(s, id, c, t) ==
    LET s1 == maybe_reset_for_new_period(s, id, t)
        v == IF IsNone(s1.value_gb) THEN GbZero ELSE Val(s1.value_gb)
    IN  [s1 EXCEPT !.value_gb = Some(GbAdd(v, delta_bytes(c, id)))]

\* async_write_ha_state: native_value and extra_state_attributes at time t
written_state(s, id, t) ==
    Some([state |-> IF IsNone(s.value_gb) THEN None
                    ELSE Some(native_value(Val(s.value_gb))),
          period_marker |-> Some(current_period_marker(id[1], t))])

(***************************************************************************)
(* The SSH client (ssh_client.py).  self.client is None or an open         *)
(* SSHClient; an exception is None or the name of its class.               *)
(***************************************************************************)
\* how an attempt to connect ends: the key file cannot be loaded, the
\* router refuses the credentials, the router cannot be reached
ConnectOutcomes == {"ok", "key", "authentication", "network"}

\* _load_ssh_key: every failure leaves it as a ConnectionError
load_ssh_key(outcome) == IF outcome = "key" THEN Some("ConnectionError") ELSE None

\* what the try block of connect() raises
connect_attempt(use_key, outcome) ==
    IF use_key /\ ~IsNone(load_ssh_key(outcome)) THEN load_ssh_key(outcome)
    ELSE IF outcome = "authentication" THEN Some("AuthenticationException")
    ELSE IF outcome = "network" THEN Some("OSError")
    ELSE None

\* variant of connect that lets the exception through and keeps the client
connect_leak(use_key, outcome) ==
    [client |-> Some("open"), raised |-> connect_attempt(use_key, outcome)]

\* connect(): the client it leaves and the exception it raises
connect(use_key, outcome) ==
    IF IsNone(connect_attempt(use_key, outcome))
    THEN [client |-> Some("open"), raised |-> None]
    ELSE [client |-> None, raised |-> Some("ConnectionError")]

\* variant of disconnect that leaves the client as it is
disconnect_keep(client) == client

\* disconnect(): the client it leaves
disconnect(client) == IF IsNone(client) THEN client ELSE None

\* _execute_command: what it raises
execute_command(client, ok) ==
    IF IsNone(client) THEN Some("ConnectionError")
    ELSE IF ok THEN None ELSE Some("RuntimeError")

\* the class of the exception _execute_command raises when a command fails
\* to run (line 122)
ExecutionError == "RuntimeError"

\* what a command writes to a stream: the UTF-8 encoding of a text, or
\* bytes that are not valid UTF-8
encode(text) == [valid |-> TRUE, text |-> text]

\* bytes.decode("utf-8"): None stands for UnicodeDecodeError
decode(bytes) == IF bytes.valid THEN Some(bytes.text) ELSE None

\* what exec_command answers: None when it raises, else the two streams
Reply(stdout, stderr) == Some([stdout |-> stdout, stderr |-> stderr])

\* lines 113-115 run without an exception
exec_ok(reply) ==
    /\ ~IsNone(reply)
    /\ ~IsNone(decode(Val(reply).stdout))
    /\ ~IsNone(decode(Val(reply).stderr))

\* _execute_command when exec_command answers reply: the exception it
\* raises, the text it returns, and whether exec_command was called
execute(client, reply) ==
    [raised |-> execute_command(client, exec_ok(reply)),
     output |-> IF IsNone(execute_command(client, exec_ok(reply)))
                THEN decode(Val(reply).stdout)
                ELSE None,
     ran |-> ~IsNone(client)]

\* variant of disconnect that raises on a client that was never connected
disconnect_unguarded(client) ==
    IF IsNone(client) THEN [client |-> client, raised |-> Some("AttributeError")]
    ELSE [client |-> None, raised |-> None]

\* a call of disconnect(): the client it leaves and what it raises
disconnect_call(client) == [client |-> disconnect(client), raised |-> None]

\* a client just constructed: no call made, nothing run
NewClient ==
    [client |-> None, op |-> "new", prev |-> "new", raised |-> None,
     stdout |-> None, output |-> None, executed |-> << >>]

\* the routine _get_data_from_router at rest, before any call
IdleSession ==
    [pc |-> "idle", client |-> None, outcome |-> "ok", raised |-> None,
     raised_in |-> {}, devices |-> << >>, wan_stats |-> None, returned |-> None]

\* the tuple the routine returns
Returned(devices, wan_stats) == Some([devices |-> devices, wan_stats |-> wan_stats])

(***************************************************************************)
(* The end of a cycle (coordinator.py, lines 170-202).                     *)
(***************************************************************************)
\* variant of _async_save_persisted_last_seen that lets a failure through
save_outcome_raise(save_ok) == [failed |-> ~save_ok, raised |-> ~save_ok]

\* _async_save_persisted_last_seen: a failure is logged and not raised
save_outcome(save_ok) == [failed |-> ~save_ok, raised |-> FALSE]

\* the coordinator when _async_update_data returns or raises UpdateFailed:
\* an exception leaves data as it was
cycle_returned(old, new, raised) == IF raised THEN [new EXCEPT !.data = old.data] ELSE new

\* variant of the except clause of _async_update_data that lets the
\* exception through as it is
update_failed_reraise(ex) == ex

\* lines 200-202: the exception that leaves _async_update_data when ex was
\* raised inside its try block
update_failed(ex) == IF IsNone(ex) THEN None ELSE Some("UpdateFailed")

\* lines 127-133: what the call of the new-devices callback raises, when cb
\* is what the callback raises if it is called
callback_raised(c, devices, cb) ==
    IF devices # << >> /\ c.new_devices_callback /\ connected_new_devices(c, devices) # {}
    THEN cb
    ELSE None

\* lines 104-133: the coordinator when the callback raises
interrupted(c, devices, t) ==
    [c EXCEPT !.last_update_time = Some(t),
              !.known_devices = @ \cup connected_new_devices(c, devices)]

\* what the cycle logged and the exception that left it; ex is what was
\* raised inside the try block before the save
Logged(outcome, ex) ==
    [save_failed |-> outcome.failed,
     update_failed |-> outcome.raised \/ ~IsNone(ex),
     escaped |-> update_failed(IF outcome.raised THEN Some("OSError") ELSE ex)]

\* the addresses a device list shows connected
connected_macs(devices) ==
    {devices[i].mac : i \in {j \in 1..Len(devices) : devices[j].is_connected}}

(***************************************************************************)
(* State.                                                                  *)
(***************************************************************************)
VARIABLES
    now,            \* the last reading of datetime.now()
    cycles,         \* number of cycles run so far
    running,        \* the config entry is set up
    coord,          \* the coordinator
    registry,       \* unique ids of the tracker entities in the entity registry
    enabled,        \* those of them the user has enabled
    store,          \* what the Store of the last-seen map holds (None: nothing)
    sensors,        \* the six period accumulators
    sensor_states,  \* the last state the host recorded for each accumulator
    dhcp_output,    \* the lease table of the last acquisition
    arp_output,     \* the ARP table of the last acquisition
    merged,         \* the list get_connected_devices returned for them
    wan_in,         \* the WAN sample the last cycle obtained (None: none)
    wan_decreased,  \* the last sample stored was below the one before it
    observed,       \* the addresses some cycle so far has observed connected
    log,            \* what the last cycle logged: a save or the update failed
    session,        \* the SSH client and the acquisition routine in progress
    ssh,            \* an SSH client called directly: its session and last call
    history,        \* what is remembered of the cycles so far
    wan_cache,      \* _WAN_CACHE, the module-level dict of sensor.py
    peer,           \* the coordinator of a second config entry
    step            \* the last operation

vars == << now, cycles, running, coord, registry, enabled, store, sensors,
           sensor_states, dhcp_output, arp_output, merged, wan_in,
           wan_decreased, observed, log, session, ssh, history, wan_cache, peer,
           step >>

(***************************************************************************)
(* What the router answers.                                                *)
(***************************************************************************)
lease_line(mac, hostname) == << "0", mac, ip_of(mac), hostname, "01:id" >>
arp_line(mac, flags) == << ip_of(mac), "0x1", flags, mac, "*", "br0" >>
ArpHeader == << "IP", "address", "HW", "type", "Flags", "HW", "address", "Mask", "Device" >>

\* lease tables and ARP tables of the cycles: the first device always has a
\* lease, the second has one or not, and each answers or not
CycleLeases ==
    { << lease_line("aa:01", "laptop") >>,
      << lease_line("aa:01", "laptop"), lease_line("BB:02", "*") >> }
CycleArps ==
    { << ArpHeader >>,
      << ArpHeader, arp_line("AA:01", "0x2") >>,
      << ArpHeader, arp_line("aa:01", "0x0"), arp_line("bb:02", "0x2") >> }

Acquisition(connected, dhcp, arp, wan, ping_ok) ==
    [connected |-> connected, dhcp |-> dhcp, arp |-> arp, wan |-> wan,
     ping_ok |-> ping_ok]

\* a session that fails at connect()
FailedSession == Acquisition(FALSE, None, << >>, None, TRUE)

\* sessions of a router that reports no WAN interface row; the probe
\* raises in one of them
PresenceSessions ==
    {FailedSession}
    \cup {Acquisition(TRUE, Some(d), a, None, TRUE) : d \in CycleLeases, a \in CycleArps}
    \cup {Acquisition(TRUE, Some(<< lease_line("aa:01", "laptop") >>),
                      << ArpHeader, arp_line("AA:01", "0x2") >>, None, FALSE)}

\* byte counters of the WAN interface
RxValues == {1000, 600000, 2000000}
TxValues == {500, 600000}
Counters(rx, tx) == [rx_bytes |-> rx, tx_bytes |-> tx]
WanSamples ==
    {Some(Counters(Some(rx), Some(tx))) : rx \in RxValues, tx \in TxValues}
    \cup {Some(Counters(Some(1000), None)), None}

\* sessions of a router without leases
WanSessions ==
    {FailedSession}
    \cup {Acquisition(TRUE, Some(<< >>), << ArpHeader >>, w, TRUE) : w \in WanSamples}

\* the time a start of the host takes
RestartDelay == 2 * 30
\* the time from one cycle to the next: the update interval, a longer pause
\* of the host (a day, 31 days), or the wall clock set back by an hour
PresenceSteps == {30, 31 * DAY, 0 - 3600}
WanSteps == {30, DAY, 0 - 3600}

\* nothing remembered: no removal raised in the last cycle, ping_ips never
\* called by this coordinator, no device observed connected
NoHistory ==
    [prune_raised |-> {}, probe_at |-> None, probe_targets |-> {},
     observed_at |-> << >>]

(***************************************************************************)
(* Initial state: the integration is installed and not yet set up.         *)
(***************************************************************************)
Init ==
    /\ now = 0
    /\ cycles = 0
    /\ running = FALSE
    /\ coord = FreshCoordinator
    /\ registry = {}
    /\ enabled = {}
    /\ store = None
    /\ sensors = [id \in SensorIds |-> NewSensor]
    /\ sensor_states = [id \in SensorIds |-> None]
    /\ dhcp_output = << >>
    /\ arp_output = << >>
    /\ merged = << >>
    /\ wan_in = None
    /\ wan_decreased = FALSE
    /\ observed = {}
    /\ log = Logged(save_outcome(TRUE), None)
    /\ session = IdleSession
    /\ ssh = NewClient
    /\ history = NoHistory
    /\ wan_cache = NewCache
    /\ peer = FreshCoordinator
    /\ step = "init"

(***************************************************************************)
(* Operations.                                                             *)
(***************************************************************************)
\* _get_data_from_router at time t: the coordinator after the session
after_session(c, a, en, t) ==
    [c EXCEPT !.last_clients_ping = pinged(c, a, acquired_devices(a, t), en, t)]

\* the coordinator when the cycle run at time t on the answer a returns
after_cycle(c, reg, en, bad, a, t) ==
    LET c0 == after_session(c, a, en, t)
        devices == acquired_devices(a, t)
    IN  async_update_data(c0, reg \cup surfaced_devices(c0, devices), bad, devices,
                          acquired_wan(a), t)

\* the entity registry when that cycle returns: the entities the callback
\* added, less the ones pruned
registry_after_cycle(c, reg, en, bad, a, t) ==
    LET c0 == after_session(c, a, en, t)
        devices == acquired_devices(a, t)
        reg1 == reg \cup surfaced_devices(c0, devices)
    IN  reg1 \ removed_entities(updated(c0, devices, acquired_wan(a), t), reg1, bad, t)

\* the stale entities of that cycle whose removal raised
prune_raised(c, reg, en, bad, a, t) ==
    LET c0 == after_session(c, a, en, t)
        devices == acquired_devices(a, t)
        reg1 == reg \cup surfaced_devices(c0, devices)
    IN  bad \cap stale_entities(updated(c0, devices, acquired_wan(a), t), reg1, t)

\* what is remembered after the session of coordinator c at time t: when
\* ping_ips was last called, and with which addresses in this session
probed(h, c, a, en, t) ==
    LET ips == ping_invoked(c, a, acquired_devices(a, t), en, t)
    IN  [h EXCEPT !.probe_at = IF ips # {} THEN Some(t) ELSE @,
                  !.probe_targets = ips]

\* the time at which each device was last in the acquired list as connected
observed_at(h, a, t) ==
    LET seen == connected_macs(acquired_devices(a, t))
    IN  [mac \in (DOMAIN h.observed_at) \cup seen |->
            IF mac \in seen THEN t ELSE h.observed_at[mac]]

\* _async_save_persisted_last_seen: the store after a save that succeeds or
\* raises
saved(c, old, save_ok) == IF save_ok THEN Some(serializable(c)) ELSE old

\* device_tracker.async_setup_entry: known_devices and the callback
tracker_setup(c) ==
    [c EXCEPT !.known_devices = IF c.data # << >> THEN macs_of(c.data) ELSE @,
              !.new_devices_callback = TRUE]

\* a sample with both counters
complete(wan_stats) ==
    /\ ~IsNone(wan_stats)
    /\ ~IsNone(Val(wan_stats).rx_bytes)
    /\ ~IsNone(Val(wan_stats).tx_bytes)

\* whether the sample that coordinator c stores next is below its baseline
decreased(c, wan_stats) ==
    /\ has_previous_sample(c)
    /\ \/ Val(Val(wan_stats).rx_bytes) < Val(c.last_wan_rx_bytes)
       \/ Val(Val(wan_stats).tx_bytes) < Val(c.last_wan_tx_bytes)

\* What is observed of a cycle: the answer of the router and the merge.
Acquired(a, t) ==
    /\ now' = t
    /\ cycles' = cycles + 1
    /\ dhcp_output' = IF a.connected /\ ~IsNone(a.dhcp) THEN Val(a.dhcp) ELSE << >>
    /\ arp_output' = IF a.connected /\ ~IsNone(a.dhcp) THEN a.arp ELSE << >>
    /\ merged' = acquired_devices(a, t)
    /\ wan_in' = acquired_wan(a)
    /\ observed' = observed \cup connected_macs(acquired_devices(a, t))
    /\ UNCHANGED << session, ssh >>

\* __init__.async_setup_entry, at a start or a restart of the host: a new
\* coordinator loads the stored map, runs the first refresh, then the
\* tracker platform creates an entity for every device of the list and the
\* sensor platform adds the accumulators, which restore their last state.
Setup(max, dt, a, load_ok, save_ok) ==
    /\ cycles < max
    /\ now + dt \in 0..MaxNow
    /\ \E t \in {now + dt} :
       \E loaded \in {load_persisted_last_seen(FreshCoordinator,
                                               IF load_ok THEN store ELSE None)} :
       \E c \in {after_cycle(loaded, registry, enabled, {}, a, t)} :
       \E reg \in {registry_after_cycle(loaded, registry, enabled, {}, a, t)} :
       \E saving \in {save_outcome(save_ok)} :
       \E returned \in {cycle_returned(loaded, c, saving.raised)} :
           /\ coord' = tracker_setup(returned)
           /\ registry' = reg \cup macs_of(returned.data)
           /\ enabled' = enabled \cap reg
           /\ store' = saved(c, store, save_ok)
           /\ log' = Logged(saving, None)
           /\ history' = [probed(NoHistory, loaded, a, enabled, t)
                              EXCEPT !.observed_at = observed_at(history, a, t)]
           /\ wan_cache' = wan_sensors_read(NewCache, returned, t).cache
           /\ sensors' = [id \in SensorIds |-> async_added_to_hass(sensor_states[id])]
           /\ Acquired(a, t)
           /\ wan_decreased' = FALSE
    /\ running' = TRUE
    /\ step' = "setup"
    /\ UNCHANGED << sensor_states, peer >>

\* One timed cycle: _async_update_data, then the listeners: every
\* accumulator handles the update and writes its state.  cb is what the
\* new-devices callback raises if the cycle calls it (None: nothing); a
\* cycle it interrupts updates nothing else and leaves as UpdateFailed.  bad
\* are the entities whose removal from the registry raises.
Cycle(max, dt, a, save_ok, cb, bad) ==
    /\ running
    /\ cycles < max
    /\ now + dt \in 0..MaxNow
    \* the inputs name what happens: a callback that raises is called, a
    \* removal that raises is attempted, a save that fails is reached
    /\ ~IsNone(cb) => save_ok /\ bad = {}
    /\ \E t \in {now + dt} :
       \E c0 \in {after_session(coord, a, enabled, t)} :
       \E ex \in {callback_raised(c0, acquired_devices(a, t), cb)} :
       /\ ex = cb
       /\ bad # {} => bad = prune_raised(coord, registry, enabled, bad, a, t)
       /\ IF IsNone(ex)
          THEN
            \E c \in {after_cycle(coord, registry, enabled, bad, a, t)} :
            \E reg \in {registry_after_cycle(coord, registry, enabled, bad, a, t)} :
            \E updated_sensors \in
                 {[id \in SensorIds |-> handle_coordinator_update(sensors[id], id, c, t)]} :
            \E saving \in {save_outcome(save_ok)} :
                /\ coord' = cycle_returned(coord, c, saving.raised)
                /\ registry' = reg
                /\ enabled' = enabled \cap reg
                /\ store' = saved(c, store, save_ok)
                /\ log' = Logged(saving, None)
                /\ history' = [probed(history, coord, a, enabled, t)
                                   EXCEPT !.prune_raised = bad,
                                          !.observed_at = observed_at(history, a, t)]
                /\ wan_cache' = wan_sensors_read(wan_cache,
                                      cycle_returned(coord, c, saving.raised), t).cache
                /\ sensors' = updated_sensors
                /\ sensor_states' =
                       [id \in SensorIds |-> written_state(updated_sensors[id], id, t)]
                /\ Acquired(a, t)
                /\ wan_decreased' = IF complete(acquired_wan(a))
                                     THEN decreased(coord, acquired_wan(a))
                                     ELSE wan_decreased
                /\ step' = "cycle"
          ELSE
                /\ coord' = cycle_returned(coord,
                                           interrupted(c0, acquired_devices(a, t), t), TRUE)
                /\ log' = Logged(save_outcome(TRUE), ex)
                /\ Acquired(a, t)
                /\ step' = "failed"
                /\ history' = [probed(history, coord, a, enabled, t)
                                   EXCEPT !.prune_raised = {},
                                          !.observed_at = observed_at(history, a, t)]
                /\ UNCHANGED << registry, enabled, store, sensors, sensor_states,
                                wan_decreased, wan_cache >>
    /\ UNCHANGED << running, peer >>

\* A cycle that calls the new-devices callback, up to the await of line
\* 133: the session has returned, the time of the update is stamped and
\* the new devices are known; the callback adds their entities.  While the
\* cycle waits there, other tasks of the host run.
CycleAwait(max, dt, a) ==
    /\ running
    /\ step # "awaiting"
    /\ cycles < max
    /\ now + dt \in 0..MaxNow
    /\ \E t \in {now + dt} :
       \E c0 \in {after_session(coord, a, enabled, t)} :
       \E devices \in {acquired_devices(a, t)} :
           /\ surfaced_devices(c0, devices) # {}
           /\ coord' = interrupted(c0, devices, t)
           /\ registry' = registry \cup surfaced_devices(c0, devices)
           /\ history' = [probed(history, coord, a, enabled, t)
                              EXCEPT !.prune_raised = {},
                                     !.observed_at = observed_at(history, a, t)]
           /\ Acquired(a, t)
    /\ step' = "awaiting"
    /\ UNCHANGED << running, enabled, store, sensors, sensor_states,
                    wan_decreased, log, wan_cache, peer >>

\* The rest of that cycle, from the return of the callback: lines 135-199,
\* at the time t of the cycle, then the listeners.
CycleResume ==
    /\ step = "awaiting"
    /\ \E t \in {Val(coord.last_update_time)} :
       \E c \in {async_update_data(coord, registry, {}, merged, wan_in, t)} :
       \E reg \in {registry \ removed_entities(updated(coord, merged, wan_in, t),
                                               registry, {}, t)} :
       \E updated_sensors \in
            {[id \in SensorIds |-> handle_coordinator_update(sensors[id], id, c, now)]} :
           /\ coord' = c
           /\ registry' = reg
           /\ enabled' = enabled \cap reg
           /\ store' = saved(c, store, TRUE)
           /\ log' = Logged(save_outcome(TRUE), None)
           /\ wan_cache' = wan_sensors_read(wan_cache, c, now).cache
           /\ sensors' = updated_sensors
           /\ sensor_states' =
                  [id \in SensorIds |-> written_state(updated_sensors[id], id, now)]
           /\ wan_decreased' = IF complete(wan_in) THEN decreased(coord, wan_in)
                                ELSE wan_decreased
    /\ step' = "cycle"
    /\ UNCHANGED << now, cycles, running, dhcp_output, arp_output, merged, wan_in,
                    observed, session, ssh, history, peer >>

\* The host reads the state of the total and speed sensors of the
\* coordinator (an update of the entity asked for by a service call).
SensorsRead ==
    /\ running
    /\ wan_cache' = wan_sensors_read(wan_cache, coord, now).cache
    /\ UNCHANGED << now, cycles, running, coord, registry, enabled, store,
                    sensors, sensor_states, dhcp_output, arp_output, merged,
                    wan_in, wan_decreased, observed, log, session, ssh, history,
                    peer, step >>

\* A cycle of the coordinator of the second config entry, with its
\* listeners: its sensors read the same cache.
PeerCycle(max, dt, counters) ==
    /\ running
    /\ cycles < max
    /\ now + dt \in 0..MaxNow
    /\ \E t \in {now + dt} :
       \E c \in {update_wan_metrics([peer EXCEPT !.last_update_time = Some(t)],
                                    counters, t)} :
           /\ peer' = c
           /\ wan_cache' = wan_sensors_read(wan_cache, c, t).cache
           /\ now' = t
    /\ cycles' = cycles + 1
    /\ UNCHANGED << running, coord, registry, enabled, store, sensors,
                    sensor_states, dhcp_output, arp_output, merged, wan_in,
                    wan_decreased, observed, log, session, ssh, history, step >>

\* The host writes the state of the accumulators outside an update: it
\* reads native_value and extra_state_attributes of each at the present time
\* (when the entity is added, or when its registry entry changes).
StatesWritten ==
    /\ running
    /\ sensor_states' = [id \in SensorIds |-> written_state(sensors[id], id, now)]
    /\ step' = "written"
    /\ UNCHANGED << now, cycles, running, coord, registry, enabled, store,
                    sensors, dhcp_output, arp_output, merged, wan_in,
                    wan_decreased, observed, log, session, ssh, history,
                    wan_cache, peer >>

\* The user enables a tracker entity in the registry.
EnableEntity(mac) ==
    /\ mac \in registry \ enabled
    /\ enabled' = enabled \cup {mac}
    /\ step' = "enable"
    /\ UNCHANGED << now, cycles, running, coord, registry, store, sensors,
                    sensor_states, dhcp_output, arp_output, merged, wan_in,
                    wan_decreased, observed, log, session, ssh, history, wan_cache,
                    peer >>

\* get_connected_devices alone, on any two tables.
Lines(S, n) == UNION {[1..k -> S] : k \in 0..n}
LeaseLines ==
    { lease_line("aa:01", "laptop"),
      lease_line("AA:01", "*"),
      << "0", "bb:02", ip_of("bb:02"), "phone" >>,
      << "0", "BB:02", ip_of("bb:02") >>,
      << >> }
ArpLines ==
    { ArpHeader,
      arp_line("aa:01", "0x2"),
      arp_line("AA:01", "0x0"),
      arp_line("bb:02", "0x0"),
      arp_line("BB:02", "0x2"),
      << ip_of("bb:02"), "0x1", "0x2", "bb:02", "*" >>,
      << >> }

Merge(dhcp, arp) ==
    /\ step = "init"
    /\ dhcp_output' = dhcp
    /\ arp_output' = arp
    /\ merged' = get_connected_devices(dhcp, arp, now)
    /\ step' = "merge"
    /\ UNCHANGED << now, cycles, running, coord, registry, enabled, store,
                    sensors, sensor_states, wan_in, wan_decreased, observed,
                    log, session, ssh, history, wan_cache,
                    peer >>

(***************************************************************************)
(* _get_data_from_router step by step: connect, the two tables, the WAN    *)
(* counters, the probe, then the return or the except clause, and the      *)
(* finally clause.                                                         *)
(***************************************************************************)
SessionStep(next) ==
    /\ session' = next
    /\ step' = "session"
    /\ UNCHANGED << now, cycles, running, registry, enabled, store, sensors,
                    sensor_states, dhcp_output, arp_output, merged, wan_in,
                    wan_decreased, observed, log, ssh, history, wan_cache,
                    peer >>

\* line 209: self.ssh_client.connect()
SessionConnect(use_key, outcome) ==
    /\ session.pc = "idle"
    /\ outcome = "key" => use_key
    /\ LET r == connect(use_key, outcome)
       IN  SessionStep([pc |-> IF IsNone(r.raised) THEN "devices" ELSE "except",
                        client |-> r.client,
                        outcome |-> outcome,
                        raised |-> r.raised,
                        raised_in |-> IF IsNone(r.raised) THEN {} ELSE {"connect"},
                        devices |-> << >>,
                        wan_stats |-> None,
                        returned |-> None])
    /\ UNCHANGED coord

\* line 210: get_connected_devices; failing names the command whose
\* execution raises, which get_connected_devices catches
SessionDevices(dhcp, arp, failing) ==
    /\ session.pc = "devices"
    /\ LET leases_error == execute_command(session.client, failing # "leases")
           arp_error == execute_command(session.client, failing # "arp")
           caught == ~IsNone(leases_error) \/ ~IsNone(arp_error)
       IN  SessionStep([session EXCEPT
                !.pc = "wan",
                !.devices = IF caught THEN << >>
                            ELSE get_connected_devices(dhcp, arp, now),
                !.raised_in = IF caught THEN @ \cup {"command"} ELSE @])
    /\ UNCHANGED coord

\* line 211: get_wan_counters returns the sample w (None: no sample) or
\* raises
SessionWan(w, ok) ==
    /\ session.pc = "wan"
    /\ SessionStep(IF ok
                   THEN [session EXCEPT !.pc = "ping", !.wan_stats = w]
                   ELSE [session EXCEPT !.pc = "except",
                                        !.raised = Some("RuntimeError"),
                                        !.raised_in = @ \cup {"wan"}])
    /\ UNCHANGED coord

\* variant of the probe whose exception reaches the except clause of the
\* routine
SessionPing_uncaught(en, ping_ok) ==
    /\ session.pc = "ping"
    /\ LET a == Acquisition(TRUE, None, << >>, None, ping_ok)
           due == /\ should_ping(coord, now)
                  /\ session.devices # << >>
                  /\ ping_targets(session.devices, en) # {}
       IN  /\ coord' = [coord EXCEPT
                  !.last_clients_ping = pinged(coord, a, session.devices, en, now)]
           /\ SessionStep(IF due /\ ~ping_ok
                          THEN [session EXCEPT !.pc = "except",
                                               !.raised = Some("RuntimeError"),
                                               !.raised_in = @ \cup {"ping"}]
                          ELSE [session EXCEPT !.pc = "return"])

\* lines 213-260: the probe of the enabled, connected devices; en is the
\* set of enabled entities the registry answers
SessionPing(en, ping_ok) ==
    /\ session.pc = "ping"
    /\ LET a == Acquisition(TRUE, None, << >>, None, ping_ok)
           due == /\ should_ping(coord, now)
                  /\ session.devices # << >>
                  /\ ping_targets(session.devices, en) # {}
       IN  /\ coord' = [coord EXCEPT
                  !.last_clients_ping = pinged(coord, a, session.devices, en, now)]
           /\ SessionStep([session EXCEPT
                  !.pc = "return",
                  !.raised_in = IF due /\ ~ping_ok THEN @ \cup {"ping"} ELSE @])

\* line 262: return devices, wan_stats
SessionReturn ==
    /\ session.pc = "return"
    /\ SessionStep([session EXCEPT
            !.pc = "finally",
            !.returned = Returned(session.devices, session.wan_stats)])
    /\ UNCHANGED coord

\* variant of the except clause that fetches again instead of returning
SessionExcept_retry ==
    /\ session.pc = "except"
    /\ SessionStep([session EXCEPT !.pc = "devices", !.raised = None])
    /\ UNCHANGED coord

\* lines 263-265: except Exception: return [], None
SessionExcept ==
    /\ session.pc = "except"
    /\ SessionStep([session EXCEPT
            !.pc = "finally",
            !.raised = None,
            !.returned = Returned(<< >>, None)])
    /\ UNCHANGED coord

\* lines 266-267: finally: self.ssh_client.disconnect()
SessionFinally ==
    /\ session.pc = "finally"
    /\ SessionStep([session EXCEPT !.pc = "idle", !.client = disconnect(@)])
    /\ UNCHANGED coord

(***************************************************************************)
(* The SSH client called directly, in any order (ssh_client.py): connect,  *)
(* _execute_command and disconnect.                                        *)
(***************************************************************************)
\* what exec_command can answer: it raises, or it gives the two streams;
\* the standard output may hold bytes that are not valid UTF-8
Replies ==
    {None, Reply([valid |-> FALSE, text |-> << >>], encode(<< >>))}
    \cup {Reply(encode(text), encode(<< >>)) : text \in CycleLeases \cup CycleArps}
    \cup {Reply(encode(<< >>), encode(<< << "cat:", "can't", "open" >> >>))}

ClientStep(next) ==
    /\ ssh' = next
    /\ step' = "client"
    /\ UNCHANGED << now, cycles, running, coord, registry, enabled, store,
                    sensors, sensor_states, dhcp_output, arp_output, merged,
                    wan_in, wan_decreased, observed, log, session, history, wan_cache,
                    peer >>

ClientConnect(use_key, outcome) ==
    /\ outcome = "key" => use_key
    /\ LET r == connect(use_key, outcome)
       IN  ClientStep([ssh EXCEPT !.client = r.client, !.op = "connect",
                                  !.prev = ssh.op, !.raised = r.raised,
                                  !.stdout = None, !.output = None])

ClientExecute(command, reply) ==
    /\ Len(ssh.executed) < MaxCalls
    /\ LET r == execute(ssh.client, reply)
       IN  ClientStep([ssh EXCEPT
               !.op = "execute",
               !.prev = ssh.op,
               !.raised = r.raised,
               !.stdout = IF r.ran /\ ~IsNone(reply) THEN Some(Val(reply).stdout) ELSE None,
               !.output = r.output,
               !.executed = IF r.ran THEN Append(@, command) ELSE @])

ClientDisconnect ==
    LET r == disconnect_call(ssh.client)
    IN  ClientStep([ssh EXCEPT !.client = r.client, !.op = "disconnect",
                               !.prev = ssh.op, !.raised = r.raised,
                               !.stdout = None, !.output = None])

(***************************************************************************)
(* Specifications.  Spec: presence, with a router that reports no WAN      *)
(* counters.  SpecWan: WAN metrics and accumulators, with a router that    *)
(* holds no lease.  SpecMerge: the merge of any two tables.                *)
(***************************************************************************)
SetupPresence ==
    \E a \in PresenceSessions, load_ok \in BOOLEAN :
        Setup(MaxCycles, RestartDelay, a, load_ok, TRUE)
CyclePresence ==
    \E dt \in PresenceSteps, a \in PresenceSessions, save_ok \in BOOLEAN,
       cb \in {None, Some("HomeAssistantError")} :
        Cycle(MaxCycles, dt, a, save_ok, cb, {})
Enable == \E mac \in Macs : EnableEntity(mac)

Next == SetupPresence \/ CyclePresence \/ Enable
Spec == Init /\ [][Next]_vars

\* The same integration with a registry that may refuse to remove the entity
\* of the first device, and with a stored map that may fail to load.
PruneSessions ==
    {FailedSession}
    \cup {Acquisition(TRUE, Some(<< lease_line("aa:01", "laptop"), lease_line("BB:02", "*") >>),
                      a, None, TRUE) : a \in CycleArps}
SetupPrune ==
    \E a \in PruneSessions, load_ok \in BOOLEAN :
        Setup(MaxCycles, RestartDelay, a, load_ok, TRUE)
CyclePrune ==
    \E dt \in {30, 31 * DAY}, a \in PruneSessions, bad \in {{}, {"AA:01"}} :
        Cycle(MaxCycles, dt, a, TRUE, None, bad)

NextPrune == SetupPrune \/ CyclePrune
SpecPrune == Init /\ [][NextPrune]_vars

\* Two config entries whose sensors share _WAN_CACHE; the router of the
\* first one gets a second client while it runs.
CacheSessions ==
    {Acquisition(TRUE, Some(d), << ArpHeader, arp_line("aa:01", "0x0"),
                                  arp_line("bb:02", "0x2") >>, w, TRUE) :
        d \in CycleLeases,
        w \in {Some(Counters(Some(1000), Some(500))),
               Some(Counters(Some(2000000), Some(600000)))}}
SetupCache == \E a \in CacheSessions : Setup(MaxWanCycles, RestartDelay, a, TRUE, TRUE)
CycleCache ==
    \E a \in CacheSessions :
        step # "awaiting" /\ Cycle(MaxWanCycles, 30, a, TRUE, None, {})
CycleAwaiting == \E a \in CacheSessions : CycleAwait(MaxWanCycles, 30, a)
PeerCycles == PeerCycle(MaxWanCycles, 30, Counters(Some(600000), Some(600000)))

NextCache ==
    \/ SetupCache
    \/ CycleCache
    \/ CycleAwaiting
    \/ CycleResume
    \/ SensorsRead
    \/ PeerCycles
SpecCache == Init /\ [][NextCache]_vars

\* The accumulators over restarts of the host, which may be down for a day.
RestoreSessions ==
    {Acquisition(TRUE, Some(<< >>), << ArpHeader >>, Some(Counters(Some(rx), Some(500))),
                 TRUE) : rx \in {1000, 2000000}}
SetupRestore ==
    \E dt \in {RestartDelay, DAY}, a \in RestoreSessions :
        Setup(MaxWanCycles, dt, a, TRUE, TRUE)
CycleRestore ==
    \E dt \in {30, DAY}, a \in RestoreSessions :
        Cycle(MaxWanCycles, dt, a, TRUE, None, {})

NextRestore == SetupRestore \/ CycleRestore \/ StatesWritten
SpecRestore == Init /\ [][NextRestore]_vars

\* The accumulators over the days and months of a year, from a first start.
PeriodSessions ==
    {FailedSession}
    \cup {Acquisition(TRUE, Some(<< >>), << ArpHeader >>,
                      Some(Counters(Some(rx), Some(500))), TRUE) : rx \in RxValues}
SetupPeriods ==
    \E a \in PeriodSessions : Setup(MaxWanCycles, RestartDelay, a, TRUE, TRUE)
CyclePeriods ==
    \E dt \in {30, DAY, 31 * DAY}, a \in PeriodSessions :
        Cycle(MaxWanCycles, dt, a, TRUE, None, {})

NextPeriods == SetupPeriods \/ CyclePeriods
SpecPeriods == Init /\ [][NextPeriods]_vars

SetupWan == \E a \in WanSessions : Setup(MaxWanCycles, RestartDelay, a, TRUE, TRUE)
CycleWan == \E dt \in WanSteps, a \in WanSessions : Cycle(MaxWanCycles, dt, a, TRUE, None, {})

NextWan == SetupWan \/ CycleWan
SpecWan == Init /\ [][NextWan]_vars

MergeTables ==
    /\ step = "init"
    /\ \E dhcp \in Lines(LeaseLines, MaxLines), arp \in Lines(ArpLines, MaxLines) :
          Merge(dhcp, arp)

NextMerge == MergeTables
SpecMerge == Init /\ [][NextMerge]_vars

Connecting == \E use_key \in BOOLEAN, outcome \in ConnectOutcomes : SessionConnect(use_key, outcome)
FetchingDevices ==
    \E dhcp \in CycleLeases, arp \in CycleArps, failing \in {"none", "leases", "arp"} :
        SessionDevices(dhcp, arp, failing)
FetchingWan == \E w \in WanSamples, ok \in BOOLEAN : SessionWan(w, ok)
Probing == \E en \in SUBSET Macs, ping_ok \in BOOLEAN : SessionPing(en, ping_ok)

\* the commands are CMD_DEVICES and CMD_ARP of const.py
NextClient ==
    \/ \E use_key \in BOOLEAN, outcome \in ConnectOutcomes :
           ClientConnect(use_key, outcome)
    \/ \E command \in {"cat /var/lib/misc/dnsmasq.leases", "cat /proc/net/arp"},
          reply \in Replies :
           ClientExecute(command, reply)
    \/ ClientDisconnect
SpecClient == Init /\ [][NextClient]_vars

NextSession ==
    \/ Connecting
    \/ FetchingDevices
    \/ FetchingWan
    \/ Probing
    \/ SessionReturn
    \/ SessionExcept
    \/ SessionFinally
SpecSession == Init /\ [][NextSession]_vars

\* The routine runs in an executor job: once started, each statement is
\* reached, and each remote call returns or raises.  When the next run
\* starts is up to the timer.
SpecSessionLive ==
    /\ SpecSession
    /\ WF_vars(FetchingDevices)
    /\ WF_vars(FetchingWan)
    /\ WF_vars(Probing)
    /\ WF_vars(SessionReturn)
    /\ WF_vars(SessionExcept)
    /\ WF_vars(SessionFinally)

(***************************************************************************)
(* Claims.                                                                 *)
(***************************************************************************)
\* the device of the last returned list with this hardware address is there
\* and connected
reachable(mac) ==
    /\ mac \in macs_of(coord.data)
    /\ first_device(coord.data, mac).is_connected

\* the delays after a cycle at which a consumer reads the presence
QueryDelays == {0, DEFAULT_SECONDS_UNTIL_AWAY - 1, DEFAULT_SECONDS_UNTIL_AWAY}

\* C1: a reachable device is Home; a device that is not reachable is Home
\* exactly when the time since its stored last_seen is below the grace
\* period (DEFAULT_SECONDS_UNTIL_AWAY), whenever the presence is read.
\* Stated for the entities whose device is in the list the last cycle
\* returned.
C1_GracePeriod ==
    \A mac \in registry \cap macs_of(coord.data) : \A delay \in QueryDelays :
        LET t == now + delay
        IN  /\ reachable(mac) => is_connected(coord, mac, t)
            /\ (~reachable(mac) /\ mac \in DOMAIN coord.mac_last_seen) =>
                  (is_connected(coord, mac, t)
                     <=> t - coord.mac_last_seen[mac] < DEFAULT_SECONDS_UNTIL_AWAY)

\* a line of the ARP table that is a row: not the header, and all six
\* columns "ip hw-type flags hw-address mask device"
is_arp_row(parts) == Len(parts) >= 6 /\ ~(parts[1] = "IP" /\ parts[2] = "address")

\* C2: every device the merge returns is connected if and only if its
\* uppercased hardware address is the uppercased address of a row of the
\* ARP table whose flags field is 0x2.
C2_MergeInvariant ==
    step = "merge" =>
        \A i \in 1..Len(merged) :
            merged[i].is_connected <=>
                \E j \in 1..Len(arp_output) :
                    /\ is_arp_row(arp_output[j])
                    /\ arp_output[j][3] = "0x2"
                    /\ upper(arp_output[j][4]) = upper(merged[i].mac)

\* C2, the case: a lease in one letter case is matched by a reachable row in
\* the other, next to a device whose row is there and not reachable
C2_Witness ==
    /\ step = "merge"
    /\ \E i, k \in 1..Len(merged) :
          /\ merged[i].is_connected
          /\ \E j \in 1..Len(arp_output) :
                /\ is_arp_row(arp_output[j])
                /\ arp_output[j][4] # merged[i].mac
                /\ upper(arp_output[j][4]) = merged[i].mac
          /\ ~merged[k].is_connected
          /\ \E j \in 1..Len(arp_output) :
                /\ is_arp_row(arp_output[j])
                /\ upper(arp_output[j][4]) = merged[k].mac

\* the device of this address in the list the cycle acquired is connected
observed_connected(devices, mac) ==
    \E i \in 1..Len(devices) : devices[i].mac = mac /\ devices[i].is_connected

rx_of(wan_stats) == Val(Val(wan_stats).rx_bytes)
tx_of(wan_stats) == Val(Val(wan_stats).tx_bytes)

\* C4: a cycle that obtains a sample and has a previous one exposes, for rx
\* and for tx, the delta max(0, current - previous).
C4_Delta ==
    [][(step' = "cycle" /\ complete(wan_in') /\ has_previous_sample(coord)) =>
        /\ coord'.wan_last_rx_delta_bytes =
              Some(Max(0, rx_of(wan_in') - Val(coord.last_wan_rx_bytes)))
        /\ coord'.wan_last_tx_delta_bytes =
              Some(Max(0, tx_of(wan_in') - Val(coord.last_wan_tx_bytes)))]_vars

\* C5: a cycle that obtains a sample stores its values as the baseline, and
\* when the sample stored before was a decrease, the deltas of this cycle
\* are max(0, next - baseline) for that lower baseline.
C5_BaselineAfterDecrease ==
    [][(step' = "cycle" /\ complete(wan_in')) =>
        /\ coord'.last_wan_rx_bytes = Some(rx_of(wan_in'))
        /\ coord'.last_wan_tx_bytes = Some(tx_of(wan_in'))
        /\ wan_decreased =>
              /\ coord'.wan_last_rx_delta_bytes =
                    Some(Max(0, rx_of(wan_in') - Val(coord.last_wan_rx_bytes)))
              /\ coord'.wan_last_tx_delta_bytes =
                    Some(Max(0, tx_of(wan_in') - Val(coord.last_wan_tx_bytes)))]_vars

\* the accumulator was last updated in the period of time t
same_period(s, id, t) == s.last_period_marker = Some(current_period_marker(id[1], t))

\* C6: within a period, a cycle that obtains no WAN sample adds nothing to
\* an accumulator.
C6_GapAddsNothing ==
    [][(step' = "cycle" /\ ~complete(wan_in')) =>
        \A id \in SensorIds :
            same_period(sensors[id], id, now') =>
                sensors'[id].value_gb = sensors[id].value_gb]_vars

restorable(state, id, t) ==
    /\ ~IsNone(state)
    /\ ~IsNone(Val(state).state)
    /\ Val(state).period_marker = Some(current_period_marker(id[1], t))

\* C9: an accumulator added with no recorded state starts at 0; after the
\* first cycle that follows the start, an accumulator whose recorded state
\* holds a number and the marker of the current period is at that number
\* plus the delta of the cycle, and one with no recorded state is at the
\* delta, with the current marker.
C9_Restore ==
    [][\A id \in SensorIds :
        /\ (step' = "setup" /\ IsNone(sensor_states[id])) =>
              sensors'[id].value_gb = Some(GbZero)
        /\ (step = "setup" /\ step' = "cycle"
              /\ restorable(sensor_states[id], id, now')) =>
              sensors'[id].value_gb =
                  Some(Gb(Val(Val(sensor_states[id]).state), delta_bytes(coord', id)))
        /\ (step = "setup" /\ step' = "cycle" /\ IsNone(sensor_states[id])) =>
              /\ sensors'[id].value_gb = Some(Gb(0, delta_bytes(coord', id)))
              /\ same_period(sensors'[id], id, now')]_vars

\* C9, the case: after a restart, a total restored from a state above 0 has
\* had the bytes of a cycle added
C9_Witness ==
    /\ step = "cycle"
    /\ \E id \in SensorIds :
          /\ Val(sensors[id].value_gb).milli > 0
          /\ Val(sensors[id].value_gb).bytes > 0

\* C10: the cycle that stores the first WAN sample of a coordinator leaves
\* both rates absent and exposes the deltas 0.
C10_FirstSample ==
    [][(/\ step' \in {"setup", "cycle"}
        /\ complete(wan_in')
        /\ (step' = "setup" \/ ~has_previous_sample(coord))) =>
        /\ coord'.wan_download_mbps = None
        /\ coord'.wan_upload_mbps = None
        /\ coord'.wan_last_rx_delta_bytes = Some(0)
        /\ coord'.wan_last_tx_delta_bytes = Some(0)]_vars

\* C10, the case: the first refresh of a start stored a sample
C10_Witness ==
    /\ step = "setup"
    /\ complete(wan_in)
    /\ coord.last_wan_rx_bytes = Some(rx_of(wan_in))
    /\ coord.wan_download_mbps = None
    /\ coord.wan_last_rx_delta_bytes = Some(0)

\* the time from the stored sample of coordinator c to time t
elapsed(c, t) == t - Val(c.last_wan_sample_time)

\* C11: a cycle that obtains a sample while no previous sample is stored, or
\* while the time elapsed since the previous sample is not above 0, leaves
\* both rates absent.
C11_RateAbsent ==
    [][(/\ step' = "cycle"
        /\ complete(wan_in')
        /\ (~has_previous_sample(coord) \/ elapsed(coord, now') <= 0)) =>
        /\ coord'.wan_download_mbps = None
        /\ coord'.wan_upload_mbps = None]_vars

\* the WAN metric state of a coordinator
wan_state(c) ==
    << c.last_wan_rx_bytes, c.last_wan_tx_bytes, c.last_wan_sample_time,
       c.wan_total_download_gb, c.wan_total_upload_gb,
       c.wan_download_mbps, c.wan_upload_mbps,
       c.wan_last_rx_delta_bytes, c.wan_last_tx_delta_bytes >>

\* the coordinator a start or a cycle works on
coordinator_before(kind, c) == IF kind = "setup" THEN FreshCoordinator ELSE c

\* C12: a start or a cycle that obtains a sample with both counters stores
\* the two counters and the time of the cycle together; one that obtains no
\* sample, or a sample with a counter missing, changes nothing of the WAN
\* metric state.
C12_AllOrNothing ==
    [][step' \in {"setup", "cycle"} =>
        IF complete(wan_in')
        THEN /\ coord'.last_wan_rx_bytes = Some(rx_of(wan_in'))
             /\ coord'.last_wan_tx_bytes = Some(tx_of(wan_in'))
             /\ coord'.last_wan_sample_time = Some(now')
        ELSE wan_state(coord') = wan_state(coordinator_before(step', coord))]_vars

\* C12, the case: a cycle obtained a sample without the tx counter while
\* another rx count was stored
C12_Witness ==
    /\ step = "cycle"
    /\ ~IsNone(wan_in)
    /\ ~IsNone(Val(wan_in).rx_bytes)
    /\ IsNone(Val(wan_in).tx_bytes)
    /\ has_previous_sample(coord)
    /\ coord.last_wan_rx_bytes # Val(wan_in).rx_bytes

\* C13: between two runs of the acquisition routine the client holds no
\* open session, whatever raised during the run.
C13_ClosedWhenIdle == session.pc = "idle" => IsNone(session.client)

\* C13, the case: a run that had opened a session and in which the WAN
\* fetch raised has ended
C13_Witness ==
    /\ session.pc = "idle"
    /\ ~IsNone(session.returned)
    /\ "wan" \in session.raised_in

\* C14: a run of the acquisition routine in which connect or a command
\* raised returns an empty device list and no WAN sample.
C14_EmptyOnFailure ==
    (/\ session.pc = "idle"
     /\ session.raised_in \cap {"connect", "command", "wan"} # {}) =>
        session.returned = Returned(<< >>, None)

\* C16: the tracker entities the host holds are entities of addresses that
\* some cycle so far has observed connected.
C16_SurfacedOnlyIfObserved == registry \subseteq observed

\* C17: after a start or a cycle, every device with a stored last-seen time
\* is in the list the cycle returned, and one that was not in the acquired
\* list is there not connected, with its last-seen time.
C17_Resurfaced ==
    step \in {"setup", "cycle"} =>
        \A mac \in DOMAIN coord.mac_last_seen :
            /\ mac \in macs_of(coord.data)
            /\ mac \notin macs_of(merged) =>
                  /\ ~first_device(coord.data, mac).is_connected
                  /\ first_device(coord.data, mac).last_seen = Some(coord.mac_last_seen[mac])

\* the last-seen time is within the prune threshold at time t
fresh(last_seen, t) == ~(last_seen < t - prune_threshold)

\* C18: after a cycle, an address is in the last-seen map, in the hostname
\* map, in the persisted map and in the entity registry only with a
\* last-seen time within 30 days.
C18_Pruned ==
    step = "cycle" =>
        \A mac \in Macs :
            (\/ mac \in DOMAIN coord.mac_last_seen
             \/ mac \in DOMAIN coord.mac_hostname
             \/ mac \in registry
             \/ (~log.save_failed /\ mac \in DOMAIN Val(store))) =>
                /\ mac \in DOMAIN coord.mac_last_seen
                /\ fresh(coord.mac_last_seen[mac], now)

\* C19: a cycle raises nothing and returns the acquired list, enriched,
\* whether its save failed or not; the save that fails leaves the store as
\* it was, the one that succeeds stores the map of the cycle.
C19_SaveFailureTolerated ==
    [][step' = "cycle" =>
        /\ ~log'.update_failed
        /\ coord'.data = enrich_devices(coord', merged')
        /\ IF log'.save_failed THEN store' = store
           ELSE store' = Some(serializable(coord'))]_vars

\* C19, the case: the save of a cycle that returned devices failed, and the
\* store holds an older map
C19_Witness ==
    /\ step = "cycle"
    /\ log.save_failed
    /\ coord.data # << >>
    /\ store # Some(serializable(coord))

\* C20: after a connect() that failed, the exception in flight is a
\* ConnectionError and the client holds no session.
C20_ConnectFailure ==
    (session.pc = "except" /\ "connect" \in session.raised_in) =>
        /\ session.raised = Some("ConnectionError")
        /\ IsNone(session.client)

\* C20, the case: connect() failed on the credentials
C20_Witness ==
    /\ session.pc = "except"
    /\ "connect" \in session.raised_in
    /\ session.outcome = "authentication"


\* C21: a command executed on a client without a session fails with the
\* execution error and exec_command is not called; on an open session a
\* call that returns gives the decoded standard output of the command.
C21_Execute ==
    [][ssh'.op = "execute" =>
          IF IsNone(ssh.client)
          THEN /\ ssh'.raised = Some(ExecutionError)
               /\ ssh'.executed = ssh.executed
          ELSE IsNone(ssh'.raised) =>
                   /\ ~IsNone(ssh'.stdout)
                   /\ ssh'.output = decode(Val(ssh'.stdout))
                   /\ ~IsNone(ssh'.output)]_vars

\* C22: disconnect() raises nothing and leaves no session, whatever the
\* client was; on a client without a session it leaves the client as it was.
C22_DisconnectIdempotent ==
    [][ssh'.op = "disconnect" =>
          /\ IsNone(ssh'.client)
          /\ IsNone(ssh'.raised)
          /\ IsNone(ssh.client) => ssh'.client = ssh.client /\ ssh'.executed = ssh.executed]_vars

\* a second disconnect() in a row, after a session that ran a command
C22_Witness ==
    /\ ssh.op = "disconnect"
    /\ ssh.prev = "disconnect"
    /\ ssh.executed # << >>

\* the lines of a lease table with at least 4 fields, in their order
full_lines(output) == SelectSeq(output, LAMBDA line : Len(line) >= 4)

\* C23: on every pair of tables, empty, header only or with short lines, the
\* two parsers return sequences of records; the lease parser returns one
\* record for each line with at least 4 fields, in order, and none for a
\* shorter line; the ARP parser returns at most one record for each line.
C23_ParsersTotal ==
    step = "merge" =>
        LET leases == parse_dhcp_leases(dhcp_output)
            neighbours == parse_arp_table(arp_output)
        IN  /\ Len(leases) = Len(full_lines(dhcp_output))
            /\ \A i \in 1..Len(leases) :
                   /\ leases[i].mac = full_lines(dhcp_output)[i][2]
                   /\ leases[i].ip = full_lines(dhcp_output)[i][3]
            /\ Len(neighbours) <= Len(arp_output)
            /\ \A i \in 1..Len(neighbours) :
                   \E k \in 1..Len(arp_output) :
                       /\ Len(arp_output[k]) >= 6
                       /\ neighbours[i].mac = arp_output[k][4]
            /\ Len(merged) = Len(leases)

\* a lease table whose first line has 3 fields and whose second line is
\* complete, with an ARP table that holds a short row
C23_Witness ==
    /\ step = "merge"
    /\ Len(dhcp_output) = 2
    /\ Len(dhcp_output[1]) = 3
    /\ Len(dhcp_output[2]) >= 4
    /\ Len(merged) = 1
    /\ \E k \in 1..Len(arp_output) : Len(arp_output[k]) = 5

\* C24: the record of a lease line whose hostname field is empty or "*"
\* has the hostname "device_" followed by the address of the line with
\* every ":" replaced by "_"; the record of any other line has the
\* hostname field of the line.
C24_HostnameSynthesis ==
    step = "merge" =>
        LET leases == parse_dhcp_leases(dhcp_output)
            lines == full_lines(dhcp_output)
        IN  \A i \in 1..Len(leases) :
                leases[i].hostname =
                    IF lines[i][4] \in {"", "*"}
                    THEN device_label(leases[i].mac)
                    ELSE lines[i][4]

\* a table with a line whose hostname is "*" and a line with a hostname
C24_Witness ==
    /\ step = "merge"
    /\ Len(merged) = 2
    /\ merged[1].hostname = "device_AA_01"
    /\ merged[2].hostname = "phone"

\* C25: every device of the returned list is the device of a lease line of
\* that table, position by position; an address that only the ARP table
\* holds is not in the list.
C25_LeasedOnly ==
    step = "merge" =>
        /\ Len(merged) = Len(full_lines(dhcp_output))
        /\ \A i \in 1..Len(merged) :
               merged[i].mac = upper(full_lines(dhcp_output)[i][2])
        /\ \A mac \in macs_of(parse_arp_table(arp_output)) :
               (\A i \in 1..Len(full_lines(dhcp_output)) :
                    upper(full_lines(dhcp_output)[i][2]) # upper(mac))
               => upper(mac) \notin macs_of(merged)

\* a reachable neighbour without a lease, beside a device with a lease
C25_Witness ==
    /\ step = "merge"
    /\ macs_of(merged) = {"AA:01"}
    /\ "BB:02" \in macs_of(parse_arp_table(arp_output))

\* C26: the returned list holds at most one device for each hardware
\* address.
C26_UniqueAddress ==
    step = "merge" =>
        \A i, j \in 1..Len(merged) : merged[i].mac = merged[j].mac => i = j

\* C27: in the list a start or a cycle returns, a device that is not
\* connected and whose address has a stored last-seen time carries that
\* time as last_seen; in the list as merged no device has a last_seen, and
\* only a connected device has a time of last activity.
C27_CarryForward ==
    step \in {"setup", "cycle"} =>
        /\ \A i \in 1..Len(coord.data) :
               (/\ ~coord.data[i].is_connected
                /\ coord.data[i].mac \in DOMAIN coord.mac_last_seen)
               => coord.data[i].last_seen = Some(coord.mac_last_seen[coord.data[i].mac])
        /\ \A i \in 1..Len(merged) :
               /\ IsNone(merged[i].last_seen)
               /\ ~IsNone(merged[i].last_activity) => merged[i].is_connected

\* after a restart, a device that holds a lease and does not answer carries
\* the last-seen time loaded from the store
C27_Witness ==
    /\ step = "setup"
    /\ \E i \in 1..Len(coord.data) :
          /\ ~coord.data[i].is_connected
          /\ ~IsNone(coord.data[i].last_seen)
          /\ Val(coord.data[i].last_seen) < now

\* C28: no stored last-seen time and no last_seen of a returned device is
\* later than the current time.
C28_NotInFuture ==
    /\ \A mac \in DOMAIN coord.mac_last_seen : coord.mac_last_seen[mac] <= now
    /\ \A i \in 1..Len(coord.data) :
           ~IsNone(coord.data[i].last_seen) => Val(coord.data[i].last_seen) <= now

\* C29: the probe leaves the devices and the WAN sample of the session as
\* they were fetched, and a routine whose probe raised returns exactly
\* them and ends with the session closed.
C29_ProbeAbsorbed ==
    /\ [][session.pc = "ping" =>
              /\ session'.devices = session.devices
              /\ session'.wan_stats = session.wan_stats
              /\ session'.pc = "return"]_vars
    /\ [](session.pc = "idle" /\ "ping" \in session.raised_in =>
              /\ session.returned = Returned(session.devices, session.wan_stats)
              /\ IsNone(session.client))

\* a routine at rest whose probe raised, after it fetched a device and a
\* WAN sample
C29_Witness ==
    /\ session.pc = "idle"
    /\ "ping" \in session.raised_in
    /\ session.devices # << >>
    /\ ~IsNone(session.wan_stats)
    /\ session.returned = Returned(session.devices, session.wan_stats)

\* C30: a cycle in which the new-devices callback raises leaves as one
\* UpdateFailed and nothing else, with the data of the cycle before; a
\* cycle in which nothing raises lets no exception out.
C30_OneUpdateFailed ==
    [][/\ step' = "failed" => /\ log'.escaped = Some("UpdateFailed")
                               /\ log'.update_failed
                               /\ coord'.data = coord.data
       /\ step' = "cycle" => IsNone(log'.escaped)]_vars

\* a cycle the callback interrupted, with a device of the cycle before
\* still in the data
C30_Witness ==
    /\ step = "failed"
    /\ log.escaped = Some("UpdateFailed")
    /\ coord.data # << >>
    /\ macs_of(merged) \ macs_of(coord.data) # {}

\* C31: in a cycle, every stale entity whose removal does not raise is
\* removed from the registry, from known_devices and from the hostnames,
\* the entities whose removal raised stay, and the cycle does not fail.
C31_PruneIsolated ==
    [][step' = "cycle" =>
          /\ ~log'.update_failed
          /\ history'.prune_raised \subseteq registry'
          /\ \A mac \in registry \ history'.prune_raised :
                 is_stale(coord', mac, now') =>
                     /\ mac \notin registry'
                     /\ mac \notin coord'.known_devices
                     /\ mac \notin DOMAIN coord'.mac_hostname]_vars

\* a cycle in which the removal of one stale entity raised and another
\* stale entity, last seen more than 30 days before, was removed
C31_Witness ==
    /\ step = "cycle"
    /\ history.prune_raised = {"AA:01"}
    /\ "AA:01" \in registry
    /\ "BB:02" \notin registry
    /\ "BB:02" \in DOMAIN coord.mac_last_seen
    /\ is_stale(coord, "BB:02", now)

\* C32: two calls of ping_ips by one coordinator are at least five minutes
\* apart, a call that raised included, and the addresses of a call are those
\* of devices connected in this cycle whose entity is enabled.
C32_ProbeSpacing ==
    [][step' \in {"cycle", "failed"} =>
        /\ (history'.probe_targets # {} /\ ~IsNone(history.probe_at)) =>
               Val(history'.probe_at) - Val(history.probe_at) >= PING_MINUTES * 60
        /\ history'.probe_targets \subseteq
               {ip_of(mac) : mac \in connected_macs(merged') \cap enabled}]_vars

\* C34: a cycle whose acquisition failed (it returned the empty list) does
\* not turn the presence of an entity from Home to Away while the time
\* since its last_seen is below the grace period.
C34_FailureKeepsHome ==
    [][(step' = "cycle" /\ merged' = << >>) =>
        \A mac \in registry \cap registry' :
            (/\ is_connected(coord, mac, now)
             /\ mac \in DOMAIN coord'.mac_last_seen
             /\ now' - coord'.mac_last_seen[mac] < DEFAULT_SECONDS_UNTIL_AWAY)
            => is_connected(coord', mac, now')]_vars

\* C35: an entity whose device was observed connected less than PRUNE_DAYS
\* days ago is not removed, in the first refresh after a restart and in a
\* cycle whose acquisition failed as in any other.
C35_RecentNotPruned ==
    [][\A mac \in registry \cap DOMAIN history'.observed_at :
          now' - history'.observed_at[mac] < PRUNE_DAYS * DAY
          => mac \in registry']_vars

\* C38: a device in known_devices has an entity: after a setup or a cycle
\* that returned, every known device that is connected is in the registry,
\* also when it became known in a cycle whose callback was unset or raised.
C38_KnownSurfaced ==
    step \in {"setup", "cycle"} =>
        \A mac \in coord.known_devices \cap connected_macs(merged) : mac \in registry

\* C33: a run of the acquisition routine that has started ends: it has
\* returned the snapshot it fetched or the empty one, and the routine is at
\* rest with no session open.
C33_Terminates ==
    session.pc # "idle" ~>
        /\ session.pc = "idle"
        /\ IsNone(session.client)
        /\ \/ session.returned = Returned(session.devices, session.wan_stats)
           \/ session.returned = Returned(<< >>, None)

\* a run that got past connect and the device fetch has ended with the
\* empty snapshot
C33_Witness ==
    /\ session.pc = "idle"
    /\ IsNone(session.client)
    /\ session.devices # << >>
    /\ session.returned = Returned(<< >>, None)

C36_MarkerNamesPeriod ==
    step \in {"cycle", "written"} =>
        \A id \in SensorIds :
            (/\ ~IsNone(sensor_states[id])
             /\ ~IsNone(sensors[id].last_period_marker)
             /\ Val(sensor_states[id]).state \notin {None, Some(0)})
            => Val(sensor_states[id]).period_marker = sensors[id].last_period_marker

\* the value of the accumulator of a period and a direction
accumulated(period, direction) ==
    LET v == sensors[<< period, direction >>].value_gb
    IN  IF IsNone(v) THEN GbZero ELSE Val(v)

\* C39: the three accumulators of a direction start together at 0 and get
\* the same updates; after every cycle the daily total is at most the
\* monthly one, and the monthly one at most the yearly one.
C39_Nested ==
    \A direction \in Directions :
        /\ GbLeq(accumulated("daily", direction), accumulated("monthly", direction))
        /\ GbLeq(accumulated("monthly", direction), accumulated("yearly", direction))

\* C39, the case: a day boundary after a month boundary, in one year: the
\* daily download total is below the monthly one, which is below the
\* yearly one
C39_Witness ==
    /\ step = "cycle"
    /\ ~GbLeq(accumulated("monthly", "download"), accumulated("daily", "download"))
    /\ ~GbLeq(accumulated("yearly", "download"), accumulated("monthly", "download"))
=========================================================================
